---- MODULE Spec2Model ----
(***************************************************************************)
(* Model of nanopolish_slurm_wrapper.py: the orchestration of one or two   *)
(* concurrent invocations of main() against one SLURM queue and one output *)
(* directory.  Strings are sequences of one-character strings, so that     *)
(* concatenation, substring search, splitting, int() and glob ordering are *)
(* computed as the code computes them.                                     *)
(***************************************************************************)
EXTENDS Integers, Sequences, FiniteSets, TLC

VARIABLES
    pid,              \* pid[r]: str(os.getpid()) of run r
    pc,               \* pc[r]: position of run r in main()
    polish_ranges,    \* polish_ranges[r]: planner output (list of region strings)
    range_idx,        \* range_idx[r]: position of the submission loop (line 56) and of the fill loop (line 78)
    incomplete_ranges,\* incomplete_ranges[r]: list computed at line 75
    dirs,             \* workspace directories that exist in output_dir
    files,            \* function <<dir, filename>> -> content
    queue,            \* jobs listed by the scheduler
    invoked,          \* invoked[r]: external commands run r has started, and "sleep" once it has slept
    failedCmd,        \* failedCmd[r]: the command whose non-zero exit run r observed, or "none"
    submitted,        \* submitted[r]: job names accepted by sbatch, in order
    doneReported,     \* doneReported[r]: 'All Nanopolish jobs are done!' was printed
    mergeArgs,        \* mergeArgs[r]: file arguments the shell handed to nanopolish_merge.py
    noOutput          \* noOutput[r]: regions whose job left the queue without writing its file

vars == <<pid, pc, polish_ranges, range_idx, incomplete_ranges, dirs, files, queue,
          invoked, failedCmd, submitted, doneReported, mergeArgs, noOutput>>

\* The two concurrent invocations of the script.
Runs == {"A", "B"}

-----------------------------------------------------------------------------
(* String literals of the script *)

Nanopolish_ == <<"N","a","n","o","p","o","l","i","s","h","_">>
TempDirSuffix == <<"_","t","e","m","p","_","d","i","r">>
PolishedDot == <<"p","o","l","i","s","h","e","d",".">>
DotFa == <<".","f","a">>
GlobPattern == PolishedDot \o <<"*">> \o DotFa
SortedBam == <<"r","e","a","d","s",".","s","o","r","t","e","d",".","b","a","m">>
SortedBamBai == SortedBam \o <<".","b","a","i">>
SqueueHeader == <<"N","A","M","E"," ","J","O","B","I","D"," ","S","T","A","T","E">>

\* Width of the job-name field in the squeue format string "%.70j".
NameWidth == 70

(* Inputs *)

Pids == {<<"1">>, <<"2">>}

\* The planner cuts a contig into NumSegments consecutive segments of
\* SegmentLen bases.
NumSegments == 3
SegmentLen == 5

Digits == <<"0","1","2","3","4","5","6","7","8","9">>

\* The decimal numeral of a natural number
RECURSIVE ToDecimal(_)
ToDecimal(n) ==
    IF n < 10 THEN <<Digits[n + 1]>>
    ELSE ToDecimal(n \div 10) \o <<Digits[(n % 10) + 1]>>

\* A region identifier as the planner prints it: contig:start-end
RegionId(contig, start, end) ==
    contig \o <<":">> \o ToDecimal(start) \o <<"-">> \o ToDecimal(end)

\* A contig whose name is "Nanopolish_1_" followed by sixty letters: the job
\* name of its region is longer than the name field of the squeue listing.
LongContig == Nanopolish_ \o <<"1","_">> \o [i \in 1..60 |-> "c"]

Segmented == [i \in 1..NumSegments |-> RegionId(<<"c">>, (i - 1) * SegmentLen, i * SegmentLen)]
Range_np == RegionId(LongContig, 0, 2)

\* What nanopolish_makerange.py may print: nothing, one contig in consecutive
\* segments, or one short contig.
RangeLists == { <<>>, Segmented, <<Range_np>> }

-----------------------------------------------------------------------------
(* Pure helpers *)

Min(a, b) == IF a < b THEN a ELSE b

SeqToSet(s) == {s[i] : i \in 1..Len(s)}

\* Python: needle in hay
Contains(hay, needle) ==
    \E i \in 0..(Len(hay) - Len(needle)) : SubSeq(hay, i + 1, i + Len(needle)) = needle

StartsWith(s, p) == Len(s) >= Len(p) /\ SubSeq(s, 1, Len(p)) = p
EndsWith(s, p) == Len(s) >= Len(p) /\ SubSeq(s, Len(s) - Len(p) + 1, Len(s)) = p

\* Python: s.split(c)[-1]
AfterLast(s, c) ==
    LET pos == {i \in 1..Len(s) : s[i] = c}
    IN IF pos = {} THEN s
       ELSE LET last == CHOOSE i \in pos : \A k \in pos : k <= i
            IN SubSeq(s, last + 1, Len(s))

\* Python: s.split(c)[0]
BeforeFirst(s, c) ==
    LET pos == {i \in 1..Len(s) : s[i] = c}
    IN IF pos = {} THEN s
       ELSE LET first == CHOOSE i \in pos : \A k \in pos : i <= k
            IN SubSeq(s, 1, first - 1)

DigitVal(c) == (CHOOSE i \in 1..Len(Digits) : Digits[i] = c) - 1

\* Python: int(s) for a string of decimal digits
RECURSIVE ParseInt(_)
ParseInt(s) ==
    IF s = <<>> THEN 0
    ELSE 10 * ParseInt(SubSeq(s, 1, Len(s) - 1)) + DigitVal(s[Len(s)])

\* Python: 'N' * n  (the empty string when n <= 0)
Ns(n) == [i \in 1..n |-> "N"]

\* Code-point order of the characters that occur in file names.
CharOrder == <<" ", "*", "-", ".", "0","1","2","3","4","5","6","7","8","9", ":",
               "A","B","D","E","I","J","M","N","O","S","T", "_",
               "a","b","c","d","e","f","h","i","l","m","n","o","p","r","s","t">>
Ord(c) == CHOOSE i \in 1..Len(CharOrder) : CharOrder[i] = c

\* Byte-wise string comparison, as the shell sorts the matches of a glob.
RECURSIVE LexLess(_, _)
LexLess(a, b) ==
    IF b = <<>> THEN FALSE
    ELSE IF a = <<>> THEN TRUE
    ELSE IF a[1] # b[1] THEN Ord(a[1]) < Ord(b[1])
    ELSE LexLess(Tail(a), Tail(b))

RECURSIVE SortLex(_)
SortLex(S) ==
    IF S = {} THEN <<>>
    ELSE LET m == CHOOSE x \in S : \A y \in S \ {x} : LexLess(x, y)
         IN <<m>> \o SortLex(S \ {m})

-----------------------------------------------------------------------------
(* Names and contents the script builds *)

\* line 31: temp_dir = os.path.join(output_dir, pid + '_temp_dir')
TempDir(p) == p \o TempDirSuffix

\* line 55: job_prefix = 'Nanopolish_' + pid + '_'
JobPrefix(p) == Nanopolish_ \o p \o <<"_">>

\* Variant of JobName: the region is not appended.
JobNameWithoutRange(p, polish_range) == JobPrefix(p)

\* line 57: job_name = job_prefix + polish_range
JobName(p, polish_range) == JobPrefix(p) \o polish_range

\* lines 58, 75, 79: 'polished.' + polish_range + '.fa'
FastaFilename(polish_range) == PolishedDot \o polish_range \o DotFa

\* Variant of RangeSize: the range taken as inclusive of its end.
RangeSizeInclusive(incomplete_range) ==
    LET start == ParseInt(BeforeFirst(AfterLast(incomplete_range, ":"), "-"))
        end == ParseInt(AfterLast(incomplete_range, "-"))
    IN end - start + 1

\* lines 80-82: the span parsed from the region identifier
RangeSize(incomplete_range) ==
    LET start == ParseInt(BeforeFirst(AfterLast(incomplete_range, ":"), "-"))
        end == ParseInt(AfterLast(incomplete_range, "-"))
    IN end - start

\* lines 83-88: the two lines written to the placeholder file
PlaceholderContent(incomplete_range) ==
    [by |-> "wrapper",
     lines |-> << <<">">> \o incomplete_range, Ns(RangeSize(incomplete_range)) >>]

\* What 'nanopolish variants --consensus' leaves behind when it succeeds; the
\* sequence itself is the external tool's business.
ConsensusContent == [by |-> "nanopolish", lines |-> <<>>]
AlignmentContent == [by |-> "samtools", lines |-> <<>>]

IsFile(fs, dir, name) == <<dir, name>> \in DOMAIN fs

WriteFile(fs, dir, name, content) == (<<dir, name>> :> content) @@ fs

\* shutil.rmtree(temp_dir): the directory's files go with it
RemoveTree(fs, dir) == [p \in {q \in DOMAIN fs : q[1] # dir} |-> fs[p]]

\* Variant of IncompleteRanges: the last region is never looked at.
RECURSIVE IncompleteRangesButLast(_, _, _)
IncompleteRangesButLast(ranges, fs, dir) ==
    IF Len(ranges) <= 1 THEN <<>>
    ELSE (IF IsFile(fs, dir, FastaFilename(Head(ranges))) THEN <<>> ELSE <<Head(ranges)>>)
         \o IncompleteRangesButLast(Tail(ranges), fs, dir)

\* line 75: the regions whose output file is absent, in planner order
RECURSIVE IncompleteRanges(_, _, _)
\* Variant of IncompleteRanges: every planned region is treated as incomplete,
\* whether or not its output file exists.
IncompleteRangesAll(ranges, fs, dir) == ranges


IncompleteRanges(ranges, fs, dir) ==
    IF ranges = <<>> THEN <<>>
    ELSE (IF IsFile(fs, dir, FastaFilename(Head(ranges))) THEN <<>> ELSE <<Head(ranges)>>)
         \o IncompleteRanges(Tail(ranges), fs, dir)

\* Variant of GlobMatches: the pattern is '*'.
GlobMatchesAll(name) == TRUE

\* line 92: the shell's expansion of polished.*.fa in the workspace: the
\* matching names in sorted order, or the pattern itself when nothing matches.
GlobMatches(name) ==
    /\ StartsWith(name, PolishedDot)
    /\ EndsWith(name, DotFa)
    /\ Len(name) >= Len(PolishedDot) + Len(DotFa)

GlobPolished(fs, dir) ==
    LET found == {q[2] : q \in {x \in DOMAIN fs : x[1] = dir /\ GlobMatches(x[2])}}
    IN IF found = {} THEN <<GlobPattern>> ELSE SortLex(found)

\* line 106: one line of squeue -o "%.70j %.8i %.10T" for a job: the job name
\* cut to the field width; the job-id and state fields that follow hold only
\* digits and upper-case letters.
SqueueLine(job) == SubSeq(job.name, 1, Min(Len(job.name), NameWidth)) \o <<" ">>

\* Variant of RemainingJobs: a line counts only when it equals job_prefix.
RemainingJobsExactMatch(job_prefix, q) ==
    Cardinality({j \in q : SqueueLine(j) = job_prefix})
    + (IF SqueueHeader = job_prefix THEN 1 ELSE 0)

\* lines 105-108: the number of lines of the listing that contain job_prefix
RemainingJobs(job_prefix, q) ==
    Cardinality({j \in q : Contains(SqueueLine(j), job_prefix)})
    + (IF Contains(SqueueHeader, job_prefix) THEN 1 ELSE 0)

-----------------------------------------------------------------------------
(* State machine *)

Init ==
    /\ pid \in [Runs -> Pids]
    /\ pc = [r \in Runs |-> "mkdir"]
    /\ polish_ranges = [r \in Runs |-> <<>>]
    /\ range_idx = [r \in Runs |-> 1]
    /\ incomplete_ranges = [r \in Runs |-> <<>>]
    /\ dirs = {}
    /\ files = [p \in {} |-> ConsensusContent]
    /\ queue = {}
    /\ invoked = [r \in Runs |-> {}]
    /\ failedCmd = [r \in Runs |-> "none"]
    /\ submitted = [r \in Runs |-> <<>>]
    /\ doneReported = [r \in Runs |-> FALSE]
    /\ mergeArgs = [r \in Runs |-> <<>>]
    /\ noOutput = [r \in Runs |-> {}]

\* Variant of WaitLoopEntry: the loop body checks the queue before it sleeps.
WaitLoopEntryCheckFirst == "poll"

\* lines 65-66: the first statement of the body of 'while True' is the sleep
WaitLoopEntry == "sleep"

\* An uncaught exception (CalledProcessError, FileExistsError) ends the run.
Abort(r, cmd) ==
    /\ pc' = [pc EXCEPT ![r] = "failed"]
    /\ failedCmd' = [failedCmd EXCEPT ![r] = cmd]

\* Variant of Mkdir: an existing directory is accepted (exist_ok=True).
MkdirExistOk(r) ==
    /\ pc[r] = "mkdir"
    /\ dirs' = dirs \cup {TempDir(pid[r])}
    /\ pc' = [pc EXCEPT ![r] = "ranges"]
    /\ UNCHANGED <<pid, polish_ranges, range_idx, incomplete_ranges, files, queue,
                   invoked, failedCmd, submitted, doneReported, mergeArgs, noOutput>>

\* lines 30-34
Mkdir(r) ==
    /\ pc[r] = "mkdir"
    /\ IF TempDir(pid[r]) \in dirs
       THEN /\ Abort(r, "mkdir")
            /\ UNCHANGED dirs
       ELSE /\ dirs' = dirs \cup {TempDir(pid[r])}
            /\ pc' = [pc EXCEPT ![r] = "ranges"]
            /\ UNCHANGED failedCmd
    /\ UNCHANGED <<pid, polish_ranges, range_idx, incomplete_ranges, files, queue,
                   invoked, submitted, doneReported, mergeArgs, noOutput>>

\* lines 36-38 and 99-102
GetRanges(r) ==
    /\ pc[r] = "ranges"
    /\ invoked' = [invoked EXCEPT ![r] = @ \cup {"makerange"}]
    /\ \/ /\ Abort(r, "makerange")
          /\ UNCHANGED polish_ranges
       \/ \E out \in RangeLists :
             /\ polish_ranges' = [polish_ranges EXCEPT ![r] = out]
             /\ pc' = [pc EXCEPT ![r] = "align"]
             /\ UNCHANGED failedCmd
    /\ UNCHANGED <<pid, range_idx, incomplete_ranges, dirs, files, queue,
                   submitted, doneReported, mergeArgs, noOutput>>

\* lines 40-45
Align(r) ==
    /\ pc[r] = "align"
    /\ invoked' = [invoked EXCEPT ![r] = @ \cup {"minimap2"}]
    /\ \/ /\ Abort(r, "minimap2")
          /\ UNCHANGED files
       \/ /\ files' = WriteFile(files, TempDir(pid[r]), SortedBam, AlignmentContent)
          /\ pc' = [pc EXCEPT ![r] = "samindex"]
          /\ UNCHANGED failedCmd
    /\ UNCHANGED <<pid, polish_ranges, range_idx, incomplete_ranges, dirs, queue,
                   submitted, doneReported, mergeArgs, noOutput>>

\* line 46
SamtoolsIndex(r) ==
    /\ pc[r] = "samindex"
    /\ invoked' = [invoked EXCEPT ![r] = @ \cup {"samtools_index"}]
    /\ \/ /\ Abort(r, "samtools_index")
          /\ UNCHANGED files
       \/ /\ files' = WriteFile(files, TempDir(pid[r]), SortedBamBai, AlignmentContent)
          /\ pc' = [pc EXCEPT ![r] = "npindex"]
          /\ UNCHANGED failedCmd
    /\ UNCHANGED <<pid, polish_ranges, range_idx, incomplete_ranges, dirs, queue,
                   submitted, doneReported, mergeArgs, noOutput>>

\* lines 48-51; the for loop of line 56 is entered when there is a region
NanopolishIndex(r) ==
    /\ pc[r] = "npindex"
    /\ invoked' = [invoked EXCEPT ![r] = @ \cup {"nanopolish_index"}]
    /\ \/ Abort(r, "nanopolish_index")
       \/ /\ pc' = [pc EXCEPT ![r] = IF polish_ranges[r] = <<>> THEN WaitLoopEntry ELSE "submit"]
          /\ UNCHANGED failedCmd
    /\ UNCHANGED <<pid, polish_ranges, range_idx, incomplete_ranges, dirs, files, queue,
                   submitted, doneReported, mergeArgs, noOutput>>

\* Variant of Submit: sbatch is run without check=True, so a rejected
\* submission is skipped and the loop goes on.
SubmitUnchecked(r) ==
    /\ pc[r] = "submit"
    /\ range_idx[r] <= Len(polish_ranges[r])
    /\ invoked' = [invoked EXCEPT ![r] = @ \cup {"sbatch"}]
    /\ LET polish_range == polish_ranges[r][range_idx[r]]
           job_name == JobName(pid[r], polish_range)
       IN \/ /\ failedCmd' = [failedCmd EXCEPT ![r] = "sbatch"]
             /\ UNCHANGED <<queue, submitted>>
          \/ /\ queue' = queue \cup {[name |-> job_name, run |-> r,
                                      cwd |-> TempDir(pid[r]), range |-> polish_range]}
             /\ submitted' = [submitted EXCEPT ![r] = Append(@, job_name)]
             /\ UNCHANGED failedCmd
    /\ range_idx' = [range_idx EXCEPT ![r] = @ + 1]
    /\ pc' = [pc EXCEPT ![r] = IF range_idx[r] = Len(polish_ranges[r])
                               THEN WaitLoopEntry ELSE "submit"]
    /\ UNCHANGED <<pid, polish_ranges, incomplete_ranges, dirs, files,
                   doneReported, mergeArgs, noOutput>>

\* Variant of Submit: the wait loop is entered after the first accepted job.
SubmitOnce(r) ==
    /\ pc[r] = "submit"
    /\ range_idx[r] <= Len(polish_ranges[r])
    /\ invoked' = [invoked EXCEPT ![r] = @ \cup {"sbatch"}]
    /\ LET polish_range == polish_ranges[r][range_idx[r]]
           job_name == JobName(pid[r], polish_range)
       IN \/ /\ Abort(r, "sbatch")
             /\ UNCHANGED <<queue, submitted, range_idx>>
          \/ /\ queue' = queue \cup {[name |-> job_name, run |-> r,
                                      cwd |-> TempDir(pid[r]), range |-> polish_range]}
             /\ submitted' = [submitted EXCEPT ![r] = Append(@, job_name)]
             /\ range_idx' = [range_idx EXCEPT ![r] = @ + 1]
             /\ pc' = [pc EXCEPT ![r] = WaitLoopEntry]
             /\ UNCHANGED failedCmd
    /\ UNCHANGED <<pid, polish_ranges, incomplete_ranges, dirs, files,
                   doneReported, mergeArgs, noOutput>>

\* lines 56-61: one iteration of the submission loop
Submit(r) ==
    /\ pc[r] = "submit"
    /\ range_idx[r] <= Len(polish_ranges[r])
    /\ invoked' = [invoked EXCEPT ![r] = @ \cup {"sbatch"}]
    /\ LET polish_range == polish_ranges[r][range_idx[r]]
           job_name == JobName(pid[r], polish_range)
       IN \/ /\ Abort(r, "sbatch")
             /\ UNCHANGED <<queue, submitted, range_idx>>
          \/ /\ queue' = queue \cup {[name |-> job_name, run |-> r,
                                      cwd |-> TempDir(pid[r]), range |-> polish_range]}
             /\ submitted' = [submitted EXCEPT ![r] = Append(@, job_name)]
             /\ range_idx' = [range_idx EXCEPT ![r] = @ + 1]
             /\ pc' = [pc EXCEPT ![r] = IF range_idx[r] = Len(polish_ranges[r])
                                        THEN WaitLoopEntry ELSE "submit"]
             /\ UNCHANGED failedCmd
    /\ UNCHANGED <<pid, polish_ranges, incomplete_ranges, dirs, files,
                   doneReported, mergeArgs, noOutput>>

\* line 66
Sleep(r) ==
    /\ pc[r] = "sleep"
    /\ invoked' = [invoked EXCEPT ![r] = @ \cup {"sleep"}]
    /\ pc' = [pc EXCEPT ![r] = "poll"]
    /\ UNCHANGED <<pid, polish_ranges, range_idx, incomplete_ranges, dirs, files, queue,
                   failedCmd, submitted, doneReported, mergeArgs, noOutput>>

\* Variant of Poll: a failed query is taken as an empty listing.
PollErrorAsEmpty(r) ==
    /\ pc[r] = "poll"
    /\ invoked' = [invoked EXCEPT ![r] = @ \cup {"squeue"}]
    /\ \/ /\ failedCmd' = [failedCmd EXCEPT ![r] = "squeue"]
          /\ doneReported' = [doneReported EXCEPT ![r] = TRUE]
          /\ pc' = [pc EXCEPT ![r] = "check"]
       \/ LET remaining_jobs == RemainingJobs(JobPrefix(pid[r]), queue)
          IN IF remaining_jobs = 0
             THEN /\ doneReported' = [doneReported EXCEPT ![r] = TRUE]
                  /\ pc' = [pc EXCEPT ![r] = "check"]
                  /\ UNCHANGED failedCmd
             ELSE /\ pc' = [pc EXCEPT ![r] = "sleep"]
                  /\ UNCHANGED <<doneReported, failedCmd>>
    /\ UNCHANGED <<pid, polish_ranges, range_idx, incomplete_ranges, dirs, files, queue,
                   submitted, mergeArgs, noOutput>>

\* Variant of Poll: the loop is left when at most one job remains.
PollExitAtOne(r) ==
    /\ pc[r] = "poll"
    /\ invoked' = [invoked EXCEPT ![r] = @ \cup {"squeue"}]
    /\ \/ /\ Abort(r, "squeue")
          /\ UNCHANGED doneReported
       \/ LET remaining_jobs == RemainingJobs(JobPrefix(pid[r]), queue)
          IN IF remaining_jobs <= 1
             THEN /\ doneReported' = [doneReported EXCEPT ![r] = TRUE]
                  /\ pc' = [pc EXCEPT ![r] = "check"]
                  /\ UNCHANGED failedCmd
             ELSE /\ pc' = [pc EXCEPT ![r] = "sleep"]
                  /\ UNCHANGED <<doneReported, failedCmd>>
    /\ UNCHANGED <<pid, polish_ranges, range_idx, incomplete_ranges, dirs, files, queue,
                   submitted, mergeArgs, noOutput>>

\* lines 67-72
Poll(r) ==
    /\ pc[r] = "poll"
    /\ invoked' = [invoked EXCEPT ![r] = @ \cup {"squeue"}]
    /\ \/ /\ Abort(r, "squeue")
          /\ UNCHANGED doneReported
       \/ LET remaining_jobs == RemainingJobs(JobPrefix(pid[r]), queue)
          IN IF remaining_jobs = 0
             THEN /\ doneReported' = [doneReported EXCEPT ![r] = TRUE]
                  /\ pc' = [pc EXCEPT ![r] = "check"]
                  /\ UNCHANGED failedCmd
             ELSE /\ pc' = [pc EXCEPT ![r] = "sleep"]
                  /\ UNCHANGED <<doneReported, failedCmd>>
    /\ UNCHANGED <<pid, polish_ranges, range_idx, incomplete_ranges, dirs, files, queue,
                   submitted, mergeArgs, noOutput>>

\* lines 74-77
CheckIncomplete(r) ==
    /\ pc[r] = "check"
    /\ LET missing == IncompleteRanges(polish_ranges[r], files, TempDir(pid[r]))
       IN /\ incomplete_ranges' = [incomplete_ranges EXCEPT ![r] = missing]
          /\ range_idx' = [range_idx EXCEPT ![r] = 1]
          /\ pc' = [pc EXCEPT ![r] = IF missing = <<>> THEN "merge" ELSE "fill"]
    /\ UNCHANGED <<pid, polish_ranges, dirs, files, queue, invoked, failedCmd,
                   submitted, doneReported, mergeArgs, noOutput>>

\* Variant of Fill: the placeholder is written under the region's name
\* without the 'polished.' prefix.
FillWrongName(r) ==
    /\ pc[r] = "fill"
    /\ range_idx[r] <= Len(incomplete_ranges[r])
    /\ LET incomplete_range == incomplete_ranges[r][range_idx[r]]
       IN files' = WriteFile(files, TempDir(pid[r]), incomplete_range \o DotFa,
                             PlaceholderContent(incomplete_range))
    /\ range_idx' = [range_idx EXCEPT ![r] = @ + 1]
    /\ pc' = [pc EXCEPT ![r] = IF range_idx[r] = Len(incomplete_ranges[r])
                               THEN "merge" ELSE "fill"]
    /\ UNCHANGED <<pid, polish_ranges, incomplete_ranges, dirs, queue, invoked, failedCmd,
                   submitted, doneReported, mergeArgs, noOutput>>

\* lines 78-88: one iteration of the placeholder loop
Fill(r) ==
    /\ pc[r] = "fill"
    /\ range_idx[r] <= Len(incomplete_ranges[r])
    /\ LET incomplete_range == incomplete_ranges[r][range_idx[r]]
       IN files' = WriteFile(files, TempDir(pid[r]), FastaFilename(incomplete_range),
                             PlaceholderContent(incomplete_range))
    /\ range_idx' = [range_idx EXCEPT ![r] = @ + 1]
    /\ pc' = [pc EXCEPT ![r] = IF range_idx[r] = Len(incomplete_ranges[r])
                               THEN "merge" ELSE "fill"]
    /\ UNCHANGED <<pid, polish_ranges, incomplete_ranges, dirs, queue, invoked, failedCmd,
                   submitted, doneReported, mergeArgs, noOutput>>

\* Variant of Merge: the workspace is removed whether or not the merge
\* succeeded (rmtree in a finally clause).
MergeAlwaysCleans(r) ==
    /\ pc[r] = "merge"
    /\ invoked' = [invoked EXCEPT ![r] = @ \cup {"merge"}]
    /\ mergeArgs' = [mergeArgs EXCEPT ![r] = GlobPolished(files, TempDir(pid[r]))]
    /\ \/ /\ Abort(r, "merge")
          /\ dirs' = dirs \ {TempDir(pid[r])}
          /\ files' = RemoveTree(files, TempDir(pid[r]))
       \/ /\ pc' = [pc EXCEPT ![r] = "cleanup"]
          /\ UNCHANGED <<failedCmd, dirs, files>>
    /\ UNCHANGED <<pid, polish_ranges, range_idx, incomplete_ranges, queue,
                   submitted, doneReported, noOutput>>

\* lines 90-93
Merge(r) ==
    /\ pc[r] = "merge"
    /\ invoked' = [invoked EXCEPT ![r] = @ \cup {"merge"}]
    /\ mergeArgs' = [mergeArgs EXCEPT ![r] = GlobPolished(files, TempDir(pid[r]))]
    /\ \/ Abort(r, "merge")
       \/ /\ pc' = [pc EXCEPT ![r] = "cleanup"]
          /\ UNCHANGED failedCmd
    /\ UNCHANGED <<pid, polish_ranges, range_idx, incomplete_ranges, dirs, files, queue,
                   submitted, doneReported, noOutput>>

\* lines 95-96
Cleanup(r) ==
    /\ pc[r] = "cleanup"
    /\ dirs' = dirs \ {TempDir(pid[r])}
    /\ files' = RemoveTree(files, TempDir(pid[r]))
    /\ pc' = [pc EXCEPT ![r] = "done"]
    /\ UNCHANGED <<pid, polish_ranges, range_idx, incomplete_ranges, queue, invoked,
                   failedCmd, submitted, doneReported, mergeArgs, noOutput>>

\* The scheduler: a job leaves the queue, having written its consensus file
\* in the directory it was submitted from, or having written nothing.
JobLeaves(job) ==
    /\ job \in queue
    /\ queue' = queue \ {job}
    /\ \/ /\ job.cwd \in dirs
          /\ files' = WriteFile(files, job.cwd, FastaFilename(job.range), ConsensusContent)
          /\ UNCHANGED noOutput
       \/ /\ noOutput' = [noOutput EXCEPT ![job.run] = @ \cup {job.range}]
          /\ UNCHANGED files
    /\ UNCHANGED <<pid, pc, polish_ranges, range_idx, incomplete_ranges, dirs, invoked,
                   failedCmd, submitted, doneReported, mergeArgs>>

Next ==
    \/ \E r \in Runs :
          \/ Mkdir(r)
          \/ GetRanges(r)
          \/ Align(r)
          \/ SamtoolsIndex(r)
          \/ NanopolishIndex(r)
          \/ Submit(r)
          \/ Sleep(r)
          \/ Poll(r)
          \/ CheckIncomplete(r)
          \/ Fill(r)
          \/ Merge(r)
          \/ Cleanup(r)
    \/ \E job \in queue : JobLeaves(job)

Spec == Init /\ [][Next]_vars

\* The steps of one invocation of main()
RunStep(r) ==
    \/ Mkdir(r) \/ GetRanges(r) \/ Align(r) \/ SamtoolsIndex(r) \/ NanopolishIndex(r)
    \/ Submit(r) \/ Sleep(r) \/ Poll(r) \/ CheckIncomplete(r) \/ Fill(r)
    \/ Merge(r) \/ Cleanup(r)

\* A running process keeps executing (every command it waits for returns, the
\* sleep of line 66 ends), and every job leaves the queue in the end (sbatch
\* --time=0-4:0:00 bounds its run time).
FairSpec ==
    /\ Spec
    /\ \A r \in Runs : WF_vars(RunStep(r))
    /\ WF_vars(\E job \in queue : JobLeaves(job))

\* One invocation alone on the cluster (the other is never started), under
\* the same fairness.
SoloNext ==
    \/ RunStep("A")
    \/ \E job \in queue : JobLeaves(job)

SoloFairSpec ==
    /\ Init
    /\ [][SoloNext]_vars
    /\ WF_vars(RunStep("A"))
    /\ WF_vars(\E job \in queue : JobLeaves(job))

-----------------------------------------------------------------------------
(* Vocabulary of the properties *)

OwnJobs(r) == {j \in queue : j.run = r}

Workspace(r) == TempDir(pid[r])

\* The names in run r's workspace that match polished.*.fa
PolishedFiles(r) == {q[2] : q \in {x \in DOMAIN files : x[1] = Workspace(r) /\ GlobMatches(x[2])}}

ExpectedFiles(r) == {FastaFilename(x) : x \in SeqToSet(polish_ranges[r])}

\* Run r created the workspace directory of its name and has not removed it
\* (a second run with the same pid stops at os.mkdir and never works in it).
OwnsWorkspace(r) == pc[r] \notin {"mkdir", "done"} /\ failedCmd[r] # "mkdir"

\* Placeholders present in the workspace run r works in
Placeholders(r) ==
    IF OwnsWorkspace(r)
    THEN {n \in PolishedFiles(r) : files[<<Workspace(r), n>>].by = "wrapper"}
    ELSE {}

\* The filler (lines 74-88) has started / has finished for run r
FillerStarted(r) == pc[r] \in {"fill", "merge", "cleanup"} \/ incomplete_ranges[r] # <<>>
FillerFinished(r) == pc[r] \in {"merge", "cleanup"}

\* The regions of the inputs, with the numeric bounds the planner means by them
PlannedRegions ==
    {[id |-> RegionId(<<"c">>, (i - 1) * SegmentLen, i * SegmentLen),
      start |-> (i - 1) * SegmentLen, end |-> i * SegmentLen] : i \in 1..NumSegments}
    \cup {[id |-> RegionId(LongContig, 0, 2), start |-> 0, end |-> 2]}

RegionStart(x) == (CHOOSE p \in PlannedRegions : p.id = x).start
RegionEnd(x) == (CHOOSE p \in PlannedRegions : p.id = x).end

-----------------------------------------------------------------------------
(* C1 *)

\* C1: once the polling loop has printed 'All Nanopolish jobs are done!', no
\* job submitted by that run is in the scheduler queue.
C1_NoDoneWhileJobsQueued ==
    \A r \in Runs : doneReported[r] => OwnJobs(r) = {}

\* A run that submitted a job per segment and then reported DONE.
C1_Witness ==
    \E r \in Runs : doneReported[r] /\ Len(submitted[r]) = NumSegments

(* C2 *)

\* C2: squeue is first run only after every region's job has been submitted,
\* and the filler does not start (no missing-file check, no placeholder) before
\* DONE has been reported.
C2_PhaseOrdering ==
    \A r \in Runs :
        /\ ("squeue" \in invoked[r] \/ pc[r] = "poll")
              => /\ Len(submitted[r]) = Len(polish_ranges[r])
                 /\ \A i \in 1..Len(polish_ranges[r]) :
                       submitted[r][i] = JobName(pid[r], polish_ranges[r][i])
        /\ (FillerStarted(r) \/ Placeholders(r) # {}) => doneReported[r]

\* A run of several regions that has polled and is writing placeholders.
C2_Witness ==
    \E r \in Runs :
        /\ "squeue" \in invoked[r]
        /\ polish_ranges[r] = Segmented
        /\ pc[r] = "fill"
        /\ Placeholders(r) # {}

(* C3 *)

\* C3: after the filler has finished, the workspace holds exactly one
\* polished.<region>.fa per planned region and no other polished.*.fa file.
C3_CoverageComplete ==
    \A r \in Runs :
        FillerFinished(r) =>
            /\ PolishedFiles(r) = ExpectedFiles(r)
            /\ Cardinality(PolishedFiles(r)) = Len(polish_ranges[r])

\* The filler finished for a segmented contig, with two placeholders and the
\* other outputs real.
C3_Witness ==
    \E r \in Runs :
        /\ FillerFinished(r)
        /\ polish_ranges[r] = Segmented
        /\ Cardinality(Placeholders(r)) = 2
        /\ Cardinality(PolishedFiles(r) \ Placeholders(r)) = NumSegments - 2

(* C4 *)

\* The placeholders run r has written so far, as positions of incomplete_ranges
FilledUpTo(r) ==
    IF pc[r] = "fill" THEN range_idx[r] - 1
    ELSE IF FillerFinished(r) THEN Len(incomplete_ranges[r])
    ELSE 0

\* C4: every placeholder the filler has written has the header '>' + region
\* identifier and a sequence line of exactly end - start symbols 'N'.
C4_PlaceholderShape ==
    \A r \in Runs : \A i \in 1..FilledUpTo(r) :
        LET x == incomplete_ranges[r][i]
            path == <<Workspace(r), FastaFilename(x)>>
        IN /\ path \in DOMAIN files
           /\ files[path].lines =
                 << <<">">> \o x, [k \in 1..(RegionEnd(x) - RegionStart(x)) |-> "N"] >>

\* A placeholder for the last segment (two-digit bounds) has been written.
C4_Witness ==
    \E r \in Runs :
        /\ FilledUpTo(r) >= 1
        /\ incomplete_ranges[r][FilledUpTo(r)] = Segmented[NumSegments]
        /\ RegionStart(Segmented[NumSegments]) >= 10

(* C5 *)

\* The position of a file name among the arguments of the merge command
ArgPos(r, name) == CHOOSE i \in 1..Len(mergeArgs[r]) : mergeArgs[r][i] = name

\* C5: the per-region files handed to the merge command are in ascending
\* order of start coordinate (all regions of a list are on one contig).
C5_MergeInCoordinateOrder ==
    \A r \in Runs :
        (pc[r] = "cleanup" /\ polish_ranges[r] # <<>>) =>
            \A x, y \in SeqToSet(polish_ranges[r]) :
                RegionStart(x) < RegionStart(y)
                    => ArgPos(r, FastaFilename(x)) < ArgPos(r, FastaFilename(y))

(* C6 *)

\* C6: with distinct pids, the lines a run counts at a poll are those of its
\* own jobs only.
C6_RunIsolation ==
    \A r \in Runs :
        (pc[r] = "poll" /\ \A o \in Runs \ {r} : pid[o] # pid[r]) =>
            /\ \A j \in queue : Contains(SqueueLine(j), JobPrefix(pid[r])) => j.run = r
            /\ RemainingJobs(JobPrefix(pid[r]), queue) = Cardinality(OwnJobs(r))

(* C7 *)

\* C7: after sbatch has exited non-zero the run is over: the jobs accepted are
\* exactly those of the regions before the rejected one, squeue and the merge
\* were never run, DONE was never reported and no placeholder was written.
C7_RejectedSubmissionAborts ==
    \A r \in Runs :
        failedCmd[r] = "sbatch" =>
            /\ pc[r] = "failed"
            /\ range_idx[r] <= Len(polish_ranges[r])
            /\ submitted[r] = [i \in 1..(range_idx[r] - 1) |->
                                  JobName(pid[r], polish_ranges[r][i])]
            /\ "squeue" \notin invoked[r]
            /\ "merge" \notin invoked[r]
            /\ ~doneReported[r]
            /\ ~FillerStarted(r)
            /\ Placeholders(r) = {}

\* The second submission of a segmented contig was rejected.
C7_Witness ==
    \E r \in Runs :
        /\ failedCmd[r] = "sbatch"
        /\ Len(submitted[r]) = 1
        /\ polish_ranges[r] = Segmented

(* C8 *)

\* C8: when the planner failed or printed nothing, no other command is run.
C8_EmptyPlanAborts ==
    \A r \in Runs :
        ("makerange" \in invoked[r] /\ pc[r] # "ranges" /\ polish_ranges[r] = <<>>) =>
            /\ pc[r] = "failed"
            /\ invoked[r] = {"makerange"}

(* C9 *)

\* C9: after squeue has exited non-zero the run is over: DONE is never
\* reported, the query is not repeated, the filler and the merge never run.
C9_FailedQueryIsFatal ==
    \A r \in Runs :
        failedCmd[r] = "squeue" =>
            /\ pc[r] = "failed"
            /\ ~doneReported[r]
            /\ ~FillerStarted(r)
            /\ Placeholders(r) = {}
            /\ "merge" \notin invoked[r]
            /\ mergeArgs[r] = <<>>

\* The query failed while jobs of the run were still queued, and also after
\* every job had left the queue.
C9_Witness ==
    /\ \E r \in Runs : failedCmd[r] = "squeue" /\ OwnJobs(r) # {}
    /\ \E r \in Runs :
          failedCmd[r] = "squeue" /\ OwnJobs(r) = {} /\ Len(submitted[r]) = NumSegments

(* C10 *)

\* The arguments of the merge command that are files of the workspace
MergeInput(r) == SelectSeq(mergeArgs[r], LAMBDA a : IsFile(files, Workspace(r), a))

\* When the merge has succeeded its input is one file per region: a
\* placeholder for the regions whose job wrote nothing, the job's output for
\* the others.
C10_MergeInputPerRegion ==
    \A r \in Runs :
        pc[r] = "cleanup" =>
            /\ Len(MergeInput(r)) = Len(polish_ranges[r])
            /\ \A x \in SeqToSet(polish_ranges[r]) :
                  /\ FastaFilename(x) \in SeqToSet(MergeInput(r))
                  /\ files[<<Workspace(r), FastaFilename(x)>>].by =
                        IF x \in noOutput[r] THEN "wrapper" ELSE "nanopolish"

\* C10: jobs that write no output never stop the run: once submission is
\* complete, the run reaches the end of a successful merge unless squeue or the
\* merge command itself fails, and the merge input then has one record per
\* region, a placeholder exactly for the regions whose job wrote nothing.
C10_JobFailureIsMasked ==
    /\ [] C10_MergeInputPerRegion
    /\ \A r \in Runs :
          (pc[r] = "sleep") ~>
              (pc[r] \in {"cleanup", "done"} \/ failedCmd[r] \in {"squeue", "merge"})

\* A merge succeeded on a segmented contig of which exactly one job wrote
\* nothing.
C10_Witness ==
    \E r \in Runs :
        /\ pc[r] = "cleanup"
        /\ polish_ranges[r] = Segmented
        /\ Cardinality(noOutput[r]) = 1
        /\ Cardinality(Placeholders(r)) = 1

(* C11 *)

\* A step in which run r's squeue query returns a listing
PollAnswered(r) == pc[r] = "poll" /\ pc'[r] # "poll" /\ failedCmd'[r] = "none"

\* The lines of the listing that run r's poll counts
Matching(r) == RemainingJobs(JobPrefix(pid[r]), queue)

\* A poll reports DONE exactly when no line of the listing contains the
\* run's prefix (and then no job of the run is queued); otherwise it goes back
\* to sleeping, however many polls came before.  No other step reports DONE.
C11_PollDecides ==
    [][\A r \in Runs :
          /\ PollAnswered(r) =>
                /\ doneReported'[r] <=> (Matching(r) = 0)
                /\ doneReported'[r] => OwnJobs(r) = {}
                /\ (Matching(r) > 0) => pc'[r] = "sleep"
                /\ (Matching(r) = 0) => pc'[r] = "check"
          /\ (doneReported'[r] /\ ~doneReported[r]) => PollAnswered(r)]_vars

\* C11: the monitor reports DONE if and only if a poll lists no job matching
\* the run's prefix; there is no timeout and no bound on the number of polls;
\* once submission is over and every job leaves the queue in the end, the loop
\* is left (by DONE, unless squeue itself fails).
C11_DoneIffPollFindsNone ==
    /\ C11_PollDecides
    /\ \A r \in Runs :
          (pc[r] = "sleep") ~> (doneReported[r] \/ failedCmd[r] = "squeue")

\* Back at the sleep after a poll that listed jobs, with one job still queued.
C11_Witness ==
    \E r \in Runs :
        /\ pc[r] = "sleep"
        /\ "squeue" \in invoked[r]
        /\ Cardinality(OwnJobs(r)) = 1
        /\ Len(submitted[r]) = NumSegments

(* C12 *)

\* Run r ended on the non-zero exit of one of its commands
FatalFailure(r) ==
    /\ pc[r] = "failed"
    /\ failedCmd[r] \in {"makerange", "minimap2", "samtools_index", "nanopolish_index",
                         "sbatch", "squeue", "merge"}

FilesOf(fs, dir) == {p \in DOMAIN fs : p[1] = dir}

\* C12: the workspace is removed only by the run that made it and only after
\* its merge succeeded; after a fatal failure the workspace exists, holds what
\* the run had produced, and none of its files is removed or changed later.
C12_WorkspaceLifecycle ==
    /\ [] \A r \in Runs :
            /\ OwnsWorkspace(r) => Workspace(r) \in dirs
            /\ pc[r] = "done" => ("merge" \in invoked[r] /\ failedCmd[r] = "none")
            /\ FatalFailure(r) =>
                  /\ Workspace(r) \in dirs
                  /\ failedCmd[r] \notin {"makerange", "minimap2"}
                        => IsFile(files, Workspace(r), SortedBam)
                  /\ failedCmd[r] = "merge"
                        => \A n \in ExpectedFiles(r) : IsFile(files, Workspace(r), n)
    /\ [][\A r \in Runs :
            /\ FatalFailure(r) =>
                  \A p \in FilesOf(files, Workspace(r)) :
                      p \in DOMAIN files' /\ files'[p] = files[p]
            /\ (Workspace(r) \in dirs /\ Workspace(r) \notin dirs') =>
                  \E o \in Runs : /\ pc[o] = "cleanup" /\ pc'[o] = "done"
                                  /\ Workspace(o) = Workspace(r)
                                  /\ "merge" \in invoked[o]
                                  /\ failedCmd[o] = "none"]_vars

\* The merge command failed on a workspace that holds every region's file,
\* placeholders among them.
C12_Witness ==
    \E r \in Runs :
        /\ FatalFailure(r)
        /\ failedCmd[r] = "merge"
        /\ polish_ranges[r] = Segmented
        /\ Placeholders(r) # {}

(* C13 *)

\* Run r is still before or inside the submission loop
BeforeMonitoring(r) == pc[r] \in {"mkdir", "ranges", "align", "samindex", "npindex", "submit"}

\* The submission loop of run r ran to its end
SubmissionComplete(r) == "sleep" \in invoked[r] \/ pc[r] \in {"sleep", "poll"}

\* C13: when the submission loop has completed, the accepted job names are
\* 'Nanopolish_<pid>_<region>' for each region once, in planner order; the jobs
\* of a run in the queue are always among those it submitted; and once the run
\* has left the submission loop nothing is submitted again.
C13_OneJobPerRegion ==
    /\ [] \A r \in Runs :
            /\ SubmissionComplete(r) =>
                  submitted[r] = [i \in 1..Len(polish_ranges[r]) |->
                                     Nanopolish_ \o pid[r] \o <<"_">> \o polish_ranges[r][i]]
            /\ Cardinality(SeqToSet(submitted[r])) = Len(submitted[r])
            /\ {j.name : j \in OwnJobs(r)} \subseteq SeqToSet(submitted[r])
            /\ Cardinality(OwnJobs(r)) <= Len(submitted[r])
    /\ [][\A r \in Runs :
            ~BeforeMonitoring(r) =>
                /\ submitted'[r] = submitted[r]
                /\ {j \in queue' : j.run = r} \subseteq queue]_vars

\* Monitoring a segmented contig after one of its jobs left without output:
\* the job is not submitted again.
C13_Witness ==
    \E r \in Runs :
        /\ pc[r] = "poll"
        /\ "squeue" \in invoked[r]
        /\ Len(submitted[r]) = NumSegments
        /\ noOutput[r] # {}
        /\ Cardinality(OwnJobs(r)) = NumSegments - 1

(* C14 *)

\* The merge command of run r has run and the workspace is still there
MergeRan(r) == pc[r] = "cleanup" \/ (pc[r] = "failed" /\ failedCmd[r] = "merge")

\* C14: the files the merge command is given are exactly the expected output
\* files of the planned regions, each once and each present; the only other
\* argument it can get is the unexpanded pattern, when no region was planned.
C14_MergeConsumesExactlyThePlan ==
    \A r \in Runs :
        MergeRan(r) =>
            /\ SeqToSet(MergeInput(r)) = ExpectedFiles(r)
            /\ Len(MergeInput(r)) = Len(polish_ranges[r])
            /\ \A a \in SeqToSet(mergeArgs[r]) :
                  \/ a \in ExpectedFiles(r) /\ IsFile(files, Workspace(r), a)
                  \/ polish_ranges[r] = <<>> /\ mergeArgs[r] = <<GlobPattern>>

\* The merge ran on a segmented contig whose files are all placeholders, in a
\* workspace that also holds the alignment and its index.
C14_Witness ==
    \E r \in Runs :
        /\ MergeRan(r)
        /\ polish_ranges[r] = Segmented
        /\ Cardinality(Placeholders(r)) = NumSegments
        /\ IsFile(files, Workspace(r), SortedBam)
        /\ IsFile(files, Workspace(r), SortedBamBai)

(* C15 *)

\* C15 as stated: the queue is checked before the monitor sleeps for the
\* first time (no sleep precedes the first check).
C15_CheckBeforeFirstSleep ==
    \A r \in Runs : "sleep" \in invoked[r] => "squeue" \in invoked[r]

\* C15, amended: the monitor sleeps before every check of the queue, the first
\* one included; a sleep begins only on entering the loop or after a check that
\* listed a matching job; and after the check that lists none the run neither
\* sleeps nor checks again.
C15_SleepBeforeEveryCheck ==
    /\ [] \A r \in Runs :
            /\ ("squeue" \in invoked[r] \/ pc[r] = "poll") => "sleep" \in invoked[r]
            /\ doneReported[r] => pc[r] \notin {"sleep", "poll"}
    /\ [][\A r \in Runs :
            /\ (pc'[r] = "poll" /\ pc[r] # "poll") => pc[r] = "sleep"
            /\ (pc'[r] = "sleep" /\ pc[r] # "sleep") =>
                  \/ pc[r] = "poll" /\ Matching(r) > 0
                  \/ pc[r] \in {"npindex", "submit"} /\ "squeue" \notin invoked[r]
            /\ (PollAnswered(r) /\ Matching(r) = 0) => pc'[r] \notin {"sleep", "poll"}]_vars

\* The first sleep is over and the queue, holding every job of the run, has
\* not been checked yet.
C15_Witness ==
    \E r \in Runs :
        /\ pc[r] = "poll"
        /\ "sleep" \in invoked[r]
        /\ "squeue" \notin invoked[r]
        /\ Cardinality(OwnJobs(r)) = NumSegments

(* C16 *)

FillerStep(r) ==
    /\ pc[r] \in {"check", "fill"}
    /\ pc'[r] # pc[r] \/ range_idx'[r] # range_idx[r]

RealOutputs(r) ==
    {p \in FilesOf(files, Workspace(r)) : files[p].by = "nanopolish"}

\* C16: the filler takes as incomplete exactly the planned regions whose
\* output file is absent when it checks; each of its steps leaves every
\* existing file as it is (the real consensus outputs among them) and creates
\* nothing but the expected output file of an incomplete region, holding that
\* region's placeholder.
C16_FillerFrame ==
    [][\A r \in Runs : FillerStep(r) =>
          /\ pc[r] = "check" =>
                \A x \in SeqToSet(polish_ranges[r]) :
                    x \in SeqToSet(incomplete_ranges'[r])
                        <=> ~IsFile(files, Workspace(r), FastaFilename(x))
          /\ \A p \in DOMAIN files : p \in DOMAIN files' /\ files'[p] = files[p]
          /\ \A p \in DOMAIN files' \ DOMAIN files :
                /\ p[1] = Workspace(r)
                /\ \E x \in SeqToSet(incomplete_ranges[r]) :
                      /\ p[2] = FastaFilename(x)
                      /\ files'[p] = PlaceholderContent(x)
          /\ dirs' = dirs]_vars

\* The filler has finished in a workspace that holds a real output next to a
\* placeholder.
C16_Witness ==
    \E r \in Runs :
        /\ pc[r] = "merge"
        /\ RealOutputs(r) # {}
        /\ Placeholders(r) # {}

(* C17 *)

WorkspaceCreated(r) == pc[r] # "mkdir" /\ failedCmd[r] # "mkdir"

\* C17: a run does nothing before it has created its workspace; a run that
\* finds a directory of its workspace's name aborts at the creation, having
\* run no command and submitted no job, and that step leaves every directory,
\* file and queued job as it was; so no two runs hold the same workspace.
C17_WorkspaceExclusive ==
    /\ [] \A r \in Runs :
            /\ ~WorkspaceCreated(r) =>
                  /\ invoked[r] = {}
                  /\ polish_ranges[r] = <<>>
                  /\ submitted[r] = <<>>
                  /\ OwnJobs(r) = {}
            /\ failedCmd[r] = "mkdir" => pc[r] = "failed"
            /\ OwnsWorkspace(r) => Workspace(r) \in dirs
            /\ \A s \in Runs \ {r} :
                  (OwnsWorkspace(r) /\ OwnsWorkspace(s)) => Workspace(r) # Workspace(s)
    /\ [][\A r \in Runs :
            (pc[r] = "mkdir" /\ pc'[r] # "mkdir") =>
                IF Workspace(r) \in dirs
                THEN /\ pc'[r] = "failed"
                     /\ failedCmd'[r] = "mkdir"
                     /\ files' = files
                     /\ dirs' = dirs
                     /\ queue' = queue
                ELSE /\ pc'[r] = "ranges"
                     /\ dirs' = dirs \cup {Workspace(r)}
                     /\ files' = files]_vars

\* A run has aborted at the creation while the other run, live and with the
\* same pid, holds the workspace with files in it.
C17_Witness ==
    \E r \in Runs : \E s \in Runs \ {r} :
        /\ failedCmd[r] = "mkdir"
        /\ Workspace(s) = Workspace(r)
        /\ OwnsWorkspace(s)
        /\ pc[s] # "failed"
        /\ FilesOf(files, Workspace(s)) # {}

====
